---- MODULE Spec2Model ----
(***************************************************************************)
(* Model of the opusfile wrapper in src/src/lib.rs: the owning handle      *)
(* OggOpusFile, its opening, query, decode and seek operations, Clone and  *)
(* Drop, the status translation of OpusFileError, and the OpusHead and     *)
(* OpusTags views.                                                         *)
(*                                                                         *)
(* The native library is the environment: every native call returns a      *)
(* value chosen from a sample set of its return type.                      *)
(*                                                                         *)
(* Words.  An i32 (c_int) is an Int in -2^31 .. 2^31-1.  A 64-bit word     *)
(* (i64, usize) is the pair <<hi, lo>> of its two 32-bit halves, each half *)
(* written as the i32 with the same bit pattern.  As an i64 the word is    *)
(* negative iff hi < 0; as a usize the same bits are read unsigned.        *)
(***************************************************************************)
EXTENDS Integers, FiniteSets, Sequences, TLC

VARIABLES
    issued,     \* native references returned non-null by an opening call
    given,      \* native references wrapped into an OggOpusFile by an opening call
    freeCount,  \* number of op_free calls made on each native reference
    created,    \* number of OggOpusFile values constructed so far
    live,       \* the OggOpusFile values not yet dropped
    ptr,        \* ptr[h]: the field .0 of OggOpusFile value h
    metas,      \* the OpusHead / OpusTags values the caller holds
    last        \* the public operation that has just returned to the caller:
                \* arguments, native call, result (Idle between operations)

vars == <<issued, given, freeCount, created, live, ptr, metas, last>>

----------------------------------------------------------------------------
(* Bounds of the model. *)

MaxRefs == 1
MaxHandles == 2
MaxMetas == 1

Null == 0
Refs == 1..MaxRefs
HandleIds == 1..MaxHandles

----------------------------------------------------------------------------
(* Machine words. *)

I32Max == 2147483647
I32Min == -I32Max - 1

\* i32 -> i64 (From::from / `as i64`): sign extension.
I64FromI32(n) == <<IF n < 0 THEN -1 ELSE 0, n>>

\* c_int -> usize with `as`: sign extension, the bits then read unsigned.
AsUsizeFromI32(n) == I64FromI32(n)

\* u32 -> 64-bit word: zero extension.
U64FromU32(n) == <<0, n>>

\* i64 is negative.
Neg64(w) == w[1] < 0

\* Result of a checked conversion (TryInto): ok, or the error that unwrap() panics on.
TryOk(v) == [ok |-> TRUE, val |-> v]
TryErr == [ok |-> FALSE, val |-> 0]

\* Faulty variant: the truncating cast `buffer.len() as i32`.
UsizeTruncI32(len) == TryOk(len[2])
\* usize -> c_int, `buffer.len().try_into()`: fits iff at most i32::MAX.
UsizeTryIntoI32(len) == IF len[1] = 0 /\ len[2] >= 0 THEN TryOk(len[2]) ELSE TryErr

\* i32 -> usize, `result.try_into()`: fits iff non-negative.
I32TryIntoUsize(n) == IF n >= 0 THEN [ok |-> TRUE, val |-> <<0, n>>] ELSE [ok |-> FALSE, val |-> <<0, 0>>]

\* i64 -> usize, `result.try_into()` with a 64-bit usize: fits iff non-negative.
I64TryIntoUsize(w) == IF w[1] >= 0 THEN [ok |-> TRUE, val |-> w] ELSE [ok |-> FALSE, val |-> <<0, 0>>]

----------------------------------------------------------------------------
(* OpusFileError: the discriminants (the native OP_* codes) and the derived *)
(* FromPrimitive conversions.                                               *)

OP_FALSE == -1
OP_EOF == -2
OP_HOLE == -3
OP_EREAD == -128
OP_EFAULT == -129
OP_EIMPL == -130
OP_EINVAL == -131
OP_ENOTFORMAT == -132
OP_EBADHEADER == -133
OP_EVERSION == -134
OP_ENOTAUDIO == -135
OP_EBADPACKET == -136
OP_EBADLINK == -137
OP_ENOSEEK == -138
OP_EBADTIMESTAMP == -139

\* Option<OpusFileError>::None
NoKind == "None"

\* #[derive(FromPrimitive)]: from_i64 compares n with each `Variant as i64`
\* in declaration order.
from_i64(n) ==
    IF n = I64FromI32(I32Min) THEN "Unknown"
    ELSE IF n = I64FromI32(OP_FALSE) THEN "False"
    ELSE IF n = I64FromI32(OP_EOF) THEN "Eof"
    ELSE IF n = I64FromI32(OP_HOLE) THEN "Hole"
    ELSE IF n = I64FromI32(OP_EREAD) THEN "Read"
    ELSE IF n = I64FromI32(OP_EFAULT) THEN "Fault"
    ELSE IF n = I64FromI32(OP_EIMPL) THEN "NotImplemented"
    ELSE IF n = I64FromI32(OP_EINVAL) THEN "InvalidParameters"
    ELSE IF n = I64FromI32(OP_ENOTFORMAT) THEN "InvalidFormat"
    ELSE IF n = I64FromI32(OP_EBADHEADER) THEN "BadHeader"
    ELSE IF n = I64FromI32(OP_EVERSION) THEN "UnrecognizedVersion"
    ELSE IF n = I64FromI32(OP_ENOTAUDIO) THEN "NotAudio"
    ELSE IF n = I64FromI32(OP_EBADPACKET) THEN "BadPacket"
    ELSE IF n = I64FromI32(OP_EBADLINK) THEN "BadLink"
    ELSE IF n = I64FromI32(OP_ENOSEEK) THEN "UnableToSeek"
    ELSE IF n = I64FromI32(OP_EBADTIMESTAMP) THEN "BadTimestamp"
    ELSE NoKind

\* Faulty variant: widening without sign extension.
from_i32_zero_extended(n) == from_i64(<<0, n>>)
\* FromPrimitive::from_i32 (provided method): from_i64 of the widened value.
from_i32(n) == from_i64(I64FromI32(n))

\* Option::unwrap_or
unwrap_or(opt, default) == IF opt = NoKind THEN default ELSE opt

----------------------------------------------------------------------------
(* Result values.  val is the 64-bit word of a numeric success value (an    *)
(* i32 success value is logged widened); err is the OpusFileError.          *)

NoVal == <<0, 0>>
Ok(v) == [tag |-> "Ok", val |-> v, err |-> NoKind]
Err(e) == [tag |-> "Err", val |-> NoVal, err |-> e]
Plain(v) == [tag |-> "Plain", val |-> v, err |-> NoKind]
Panic == [tag |-> "Panic", val |-> NoVal, err |-> NoKind]

----------------------------------------------------------------------------
(* Values the environment supplies: native returns and caller arguments.    *)

ErrorCodes ==
    {OP_FALSE, OP_EOF, OP_HOLE, OP_EREAD, OP_EFAULT, OP_EIMPL, OP_EINVAL,
     OP_ENOTFORMAT, OP_EBADHEADER, OP_EVERSION, OP_ENOTAUDIO, OP_EBADPACKET,
     OP_EBADLINK, OP_ENOSEEK, OP_EBADTIMESTAMP}

\* c_int returns of the fallible native functions: every documented code, two
\* undocumented negatives between and below them, i32::MIN, 0, 1, i32::MAX.
StatusSamples == ErrorCodes \cup {I32Min, OP_EBADTIMESTAMP - 1, OP_HOLE - 1, 0, 1, I32Max}

\* 64-bit returns: the same values widened, and words outside the i32 range
\* whose low half looks like OP_FALSE (-2^32-1), like 5 (-2^32+5), like
\* OP_EINVAL (a positive word), and i64::MIN.
Status64Samples ==
    {I64FromI32(n) : n \in StatusSamples}
        \cup {<<-2, OP_FALSE>>, <<-1, 5>>, <<1, OP_EINVAL>>, <<I32Min, 0>>}

\* c_int returns of the native functions documented never to fail.
FlagSamples == {0, 1}
CountSamples == {1, 2}
\* u32 serial numbers, 0xFFFFFFFF among them.
SerialSamples == {0, 7, -1}

\* Link indices a caller passes: negative, first, out of range.
LinkIndexSamples == {-1, 0, 7}

\* Buffer lengths (usize): 0, 960, i32::MAX, i32::MAX+1, 2^32+5, usize::MAX.
LenSamples == {<<0, 0>>, <<0, 960>>, <<0, I32Max>>, <<0, I32Min>>, <<1, 5>>, <<-1, -1>>}

\* Seek offsets (i64).
OffsetSamples == {<<0, 0>>, <<-1, -1>>}

----------------------------------------------------------------------------
(* Helpers on the state. *)

\* op_free has been called on reference r.
Freed(r) == r # Null /\ freeCount[r] > 0

\* The record of an operation whose native call receives reference r: was r
\* already released (freed), was the native function called, with which link
\* index (li), buffer length (len) and capacity (cap), what it returned (ret,
\* ret64, nonnull) and what the operation returned (res).  The operations
\* that create, move or destroy an OggOpusFile also record it (h) and r (ref).
Entry(op, h, r) ==
    [op |-> op, h |-> h, ref |-> r, freed |-> Freed(r), called |-> TRUE,
     li |-> 0, cap |-> 0, len |-> NoVal,
     ret |-> 0, ret64 |-> NoVal, nonnull |-> FALSE, res |-> Plain(NoVal)]

\* The record of a query, decode or seek operation on self.
Use(op, self) == [Entry(op, 0, Null) EXCEPT !.freed = Freed(ptr[self])]

\* Between operations: the caller has taken the previous result.
Idle == [Entry("idle", 0, Null) EXCEPT !.called = FALSE]
Ready == last.op = "idle"

\* The native release function: counts the call; op_free(NULL) does nothing.
op_free(r) == IF r = Null THEN freeCount ELSE [freeCount EXCEPT ![r] = @ + 1]

\* The reference a native opening call may return: NULL, or a fresh one.
FreshRefs == IF Cardinality(issued) < MaxRefs THEN {Cardinality(issued) + 1} ELSE {}

----------------------------------------------------------------------------
(* The result each operation computes from its native return. *)

\* Result<usize, _> of `Ok(x.try_into().unwrap())`
unwrap_into_ok(t) == IF t.ok THEN Ok(t.val) ELSE Panic

\* Faulty variant: `&&` for `||`.
open_failed_when_both(handle, error) == handle = Null /\ error < 0
open_failed(handle, error) == handle = Null \/ error < 0

open_result(handle, error) ==
    IF open_failed(handle, error)
    THEN Err(unwrap_or(from_i32(error), "Unknown"))
    ELSE Ok(NoVal)

test_open_result(result) ==
    IF result < 0 THEN Err(unwrap_or(from_i32(result), "Unknown")) ELSE Ok(NoVal)

\* Faulty variant: the native return passed on without the sign test.
total_result_unchecked(result) == Ok(result)
total_result(result) ==
    IF Neg64(result)
    THEN Err(unwrap_or(from_i64(result), "Unknown"))
    ELSE unwrap_into_ok(I64TryIntoUsize(result))

metadata_result(nonnull) == IF ~nonnull THEN Err("Unknown") ELSE Ok(NoVal)

status_result(result) ==
    IF result < 0 THEN Err(unwrap_or(from_i32(result), "Unknown")) ELSE Ok(I64FromI32(result))

tell_result(result) ==
    IF Neg64(result) THEN Err(unwrap_or(from_i64(result), "Unknown")) ELSE Ok(result)

\* Faulty variant: `result <= 0` for `result < 0`.
read_result_zero_is_error(result) ==
    IF result <= 0
    THEN Err(unwrap_or(from_i32(result), "Unknown"))
    ELSE unwrap_into_ok(I32TryIntoUsize(result))
read_result(result) ==
    IF result < 0
    THEN Err(unwrap_or(from_i32(result), "Unknown"))
    ELSE unwrap_into_ok(I32TryIntoUsize(result))

seek_result(result) ==
    IF result < 0 THEN Err(unwrap_or(from_i32(result), "Unknown")) ELSE Ok(NoVal)

\* `buffer.len().try_into().unwrap()`: the capacity handed to the native read.
buffer_capacity(len) == UsizeTryIntoI32(len)

----------------------------------------------------------------------------
(* Construction. *)

Init ==
    /\ issued = {}
    /\ given = {}
    /\ freeCount = [r \in Refs |-> 0]
    /\ created = 0
    /\ live = {}
    /\ ptr = [h \in HandleIds |-> Null]
    /\ metas = {}
    /\ last = Idle

\* The common body of the six opening operations.  The path and URL variants
\* first build a CString (to_str().unwrap(), CString::new(..).expect(..)) and
\* panic there, before any native call, when the text is not convertible.
\* Otherwise the native function returns a reference and sets the out-parameter
\* error; Ok(Self(handle)) constructs the next OggOpusFile value.
Open(op, texts) ==
    /\ Ready
    /\ \E convertible \in texts :
        IF ~convertible
        THEN /\ last' = [Entry(op, 0, Null) EXCEPT !.called = FALSE, !.res = Panic]
             /\ UNCHANGED <<issued, given, freeCount, created, live, ptr, metas>>
        ELSE \E handle \in {Null} \cup FreshRefs, error \in StatusSamples :
                LET result == open_result(handle, error)
                    self == created + 1
                IN  /\ issued' = issued \cup ({handle} \ {Null})
                    /\ IF result.tag = "Ok"
                       THEN /\ created < MaxHandles
                            /\ created' = self
                            /\ live' = live \cup {self}
                            /\ ptr' = [ptr EXCEPT ![self] = handle]
                            /\ given' = given \cup ({handle} \ {Null})
                            /\ last' = [Entry(op, self, handle) EXCEPT
                                            !.ret = error, !.nonnull = handle # Null, !.res = result]
                       ELSE /\ last' = [Entry(op, 0, handle) EXCEPT
                                            !.ret = error, !.nonnull = handle # Null, !.res = result]
                            /\ UNCHANGED <<given, created, live, ptr>>
                    /\ UNCHANGED <<freeCount, metas>>

open_file == Open("open_file", BOOLEAN)
open_memory == Open("open_memory", {TRUE})
open_url == Open("open_url", BOOLEAN)
test_file == Open("test_file", BOOLEAN)
test_memory == Open("test_memory", {TRUE})
test_url == Open("test_url", BOOLEAN)

\* Drop for OggOpusFile: op_free(self.0); the value is gone.
drop ==
    \E self \in live :
        /\ Ready
        /\ freeCount' = op_free(ptr[self])
        /\ live' = live \ {self}
        /\ last' = Entry("drop", self, ptr[self])
        /\ UNCHANGED <<issued, given, created, ptr, metas>>

\* #[derive(Clone)]: a new OggOpusFile whose field is a copy of self.0.
clone ==
    \E self \in live :
        /\ Ready
        /\ created < MaxHandles
        /\ created' = created + 1
        /\ live' = live \cup {created + 1}
        /\ ptr' = [ptr EXCEPT ![created + 1] = ptr[self]]
        /\ last' = [Entry("clone", created + 1, ptr[self]) EXCEPT !.called = FALSE]
        /\ UNCHANGED <<issued, given, freeCount, metas>>

\* test_open(self): self is moved in.  Ok(self) moves it out again; on Err
\* self goes out of scope at the end of the function and is dropped.
test_open ==
    \E self \in live, native \in StatusSamples :
        LET result == test_open_result(native)
        IN  /\ Ready
            /\ last' = [Entry("test_open", self, ptr[self]) EXCEPT !.ret = native, !.res = result]
            /\ IF result.tag = "Ok"
               THEN UNCHANGED <<freeCount, live>>
               ELSE /\ freeCount' = op_free(ptr[self])
                    /\ live' = live \ {self}
            /\ UNCHANGED <<issued, given, created, ptr, metas>>

----------------------------------------------------------------------------
(* Metadata queries.  Each takes &self and passes self.0, and the link      *)
(* index where there is one, to the native function unchanged.             *)

Unchanged == UNCHANGED <<issued, given, freeCount, created, live, ptr, metas>>

\* A query whose native function returns a 32-bit value; result maps each
\* native return to what the query returns for it.
Query32(op, links, result) ==
    \E self \in live, link_index \in links, native \in DOMAIN result :
        /\ Ready
        /\ last' = [Use(op, self) EXCEPT
                        !.li = link_index, !.ret = native, !.res = result[native]]
        /\ Unchanged

\* A query whose native function returns a 64-bit value.
Query64(op, links, result) ==
    \E self \in live, link_index \in links, native \in DOMAIN result :
        /\ Ready
        /\ last' = [Use(op, self) EXCEPT
                        !.li = link_index, !.ret64 = native, !.res = result[native]]
        /\ Unchanged

NoLink == {0}

seekable_value(native) == Plain(<<0, IF native # 0 THEN 1 ELSE 0>>)
link_count_value(native) == Plain(AsUsizeFromI32(native))
serial_number_value(native) == Plain(U64FromU32(native))
channel_count_value(native) == Plain(AsUsizeFromI32(native))

seekable == Query32("seekable", NoLink, [native \in FlagSamples |-> seekable_value(native)])
link_count == Query32("link_count", NoLink, [native \in CountSamples |-> link_count_value(native)])
serial_number_of_link ==
    Query32("serial_number_of_link", LinkIndexSamples, [native \in SerialSamples |-> serial_number_value(native)])
channel_count == Query32("channel_count", LinkIndexSamples, [native \in CountSamples |-> channel_count_value(native)])
raw_total == Query64("raw_total", LinkIndexSamples, [native \in Status64Samples |-> total_result(native)])
pcm_total == Query64("pcm_total", LinkIndexSamples, [native \in Status64Samples |-> total_result(native)])
current_link == Query32("current_link", NoLink, [native \in StatusSamples |-> status_result(native)])
bitrate == Query32("bitrate", LinkIndexSamples, [native \in StatusSamples |-> status_result(native)])
bitrate_instant == Query32("bitrate_instant", NoLink, [native \in StatusSamples |-> status_result(native)])
raw_tell == Query64("raw_tell", NoLink, [native \in Status64Samples |-> tell_result(native)])
pcm_tell == Query64("pcm_tell", NoLink, [native \in Status64Samples |-> tell_result(native)])

\* head / tags: the native function returns a pointer into the decoder's
\* state; a non-null one is wrapped into an OpusHead / OpusTags, a value with
\* no lifetime parameter and no Drop, which the caller then holds.
Metadata(op) ==
    \E self \in live, link_index \in LinkIndexSamples, nonnull \in BOOLEAN :
        LET result == metadata_result(nonnull)
            view == [kind |-> op, of |-> self, ref |-> ptr[self]]
        IN  /\ Ready
            /\ last' = [Use(op, self) EXCEPT
                            !.li = link_index, !.nonnull = nonnull, !.res = result]
            /\ IF result.tag = "Ok"
               THEN /\ view \in metas \/ Cardinality(metas) < MaxMetas
                    /\ metas' = metas \cup {view}
               ELSE UNCHANGED metas
            /\ UNCHANGED <<issued, given, freeCount, created, live, ptr>>

head == Metadata("head")
tags == Metadata("tags")

\* The caller lets an OpusHead / OpusTags go: no Drop impl, nothing is released.
drop_metadata ==
    \E view \in metas :
        /\ Ready
        /\ metas' = metas \ {view}
        /\ last' = [Entry("drop_metadata", 0, view.ref) EXCEPT !.called = FALSE]
        /\ UNCHANGED <<issued, given, freeCount, created, live, ptr>>

----------------------------------------------------------------------------
(* Decoding and seeking. *)

\* The common body of the four read operations.  outs: whether the caller
\* may pass Some(&mut link_index) (read, read_float) or has no such argument.
\* The capacity argument is evaluated before the call: when the conversion
\* fails, unwrap() panics and the native function is not called.
Read(op, outs) ==
    /\ Ready
    /\ \E self \in live, len \in LenSamples, out \in outs :
        LET capacity == buffer_capacity(len)
        IN  IF ~capacity.ok
            THEN /\ last' = [Use(op, self) EXCEPT
                                 !.called = FALSE, !.len = len, !.res = Panic]
                 /\ Unchanged
            ELSE \E native \in StatusSamples :
                    /\ last' = [Use(op, self) EXCEPT
                                    !.len = len, !.cap = capacity.val,
                                    !.ret = native, !.res = read_result(native)]
                    /\ Unchanged

read == Read("read", BOOLEAN)
read_float == Read("read_float", BOOLEAN)
read_stereo == Read("read_stereo", {FALSE})
read_float_stereo == Read("read_float_stereo", {FALSE})

Seek(op) ==
    \E self \in live, offset \in OffsetSamples, native \in StatusSamples :
        /\ Ready
        /\ last' = [Use(op, self) EXCEPT !.ret = native, !.res = seek_result(native)]
        /\ Unchanged

raw_seek == Seek("raw_seek")
pcm_seek == Seek("pcm_seek")

----------------------------------------------------------------------------

\* The operation has returned and the caller goes on with its result.
caller_continues ==
    /\ ~Ready
    /\ last' = Idle
    /\ Unchanged

Next ==
    \/ open_file \/ open_memory \/ open_url
    \/ test_file \/ test_memory \/ test_url
    \/ test_open \/ clone \/ drop
    \/ seekable \/ link_count \/ serial_number_of_link \/ channel_count
    \/ raw_total \/ pcm_total \/ head \/ tags \/ drop_metadata
    \/ current_link \/ bitrate \/ bitrate_instant \/ raw_tell \/ pcm_tell
    \/ read \/ read_float \/ read_stereo \/ read_float_stereo
    \/ raw_seek \/ pcm_seek
    \/ caller_continues

Spec == Init /\ [][Next]_vars

----------------------------------------------------------------------------
(* Vocabulary of the properties. *)

OpenOps == {"open_file", "open_memory", "open_url", "test_file", "test_memory", "test_url"}
ReadOps == {"read", "read_float", "read_stereo", "read_float_stereo"}
SeekOps == {"raw_seek", "pcm_seek"}
PerLinkOps ==
    {"serial_number_of_link", "channel_count", "raw_total", "pcm_total", "head", "tags", "bitrate"}
QueryOps ==
    PerLinkOps \cup {"seekable", "link_count", "current_link", "bitrate_instant", "raw_tell", "pcm_tell"}

\* Operations whose native function returns a 32-bit / a 64-bit status.
Status32Ops == {"test_open", "current_link", "bitrate", "bitrate_instant"} \cup ReadOps \cup SeekOps
Status64Ops == {"raw_total", "pcm_total", "raw_tell", "pcm_tell"}

\* The documented native codes and the error kind of each.
DocumentedKinds ==
    {<<OP_FALSE, "False">>, <<OP_EOF, "Eof">>, <<OP_HOLE, "Hole">>, <<OP_EREAD, "Read">>,
     <<OP_EFAULT, "Fault">>, <<OP_EIMPL, "NotImplemented">>, <<OP_EINVAL, "InvalidParameters">>,
     <<OP_ENOTFORMAT, "InvalidFormat">>, <<OP_EBADHEADER, "BadHeader">>,
     <<OP_EVERSION, "UnrecognizedVersion">>, <<OP_ENOTAUDIO, "NotAudio">>,
     <<OP_EBADPACKET, "BadPacket">>, <<OP_EBADLINK, "BadLink">>, <<OP_ENOSEEK, "UnableToSeek">>,
     <<OP_EBADTIMESTAMP, "BadTimestamp">>}

\* The kind a negative 32-bit status must be reported as.
KindOf32(status) ==
    IF \E d \in DocumentedKinds : d[1] = status
    THEN (CHOOSE d \in DocumentedKinds : d[1] = status)[2]
    ELSE "Unknown"

\* The kind a negative 64-bit status must be reported as: a documented code
\* is a word whose high half is all ones and whose low half is the code.
KindOf64(status) ==
    IF status[1] = -1 /\ \E d \in DocumentedKinds : d[1] = status[2]
    THEN (CHOOSE d \in DocumentedKinds : d[1] = status[2])[2]
    ELSE "Unknown"

\* Reference r is the field of some live OggOpusFile.
Held(r) == \E h \in live : ptr[h] = r

----------------------------------------------------------------------------
(* C1: every native reference that a successful opening operation handed    *)
(* to an OggOpusFile has op_free called on it exactly once: never twice,    *)
(* and not zero times once no live handle holds it.                         *)
C1_ReleasedExactlyOnce ==
    \A r \in given :
        /\ freeCount[r] <= 1
        /\ ~Held(r) => freeCount[r] = 1

(* C2: each native reference is held by at most one live OggOpusFile, and   *)
(* no query, decode or seek operation is invoked with a reference on which  *)
(* op_free has already been called.                                         *)
C2_ExclusiveAndNoUseAfterRelease ==
    /\ \A h1, h2 \in live : ptr[h1] = ptr[h2] => h1 = h2
    /\ (last.op \in QueryOps \cup ReadOps \cup SeekOps /\ last.called) => ~last.freed

(* C3: status translation is the same total function in every fallible      *)
(* operation, for 32-bit and 64-bit native returns: zero or positive is a   *)
(* success, a documented negative code is that code's kind, any other       *)
(* negative value (also one outside the 32-bit range) is Unknown, and no    *)
(* negative return is reported as success.  For the opening operations the  *)
(* status is the out-parameter, and a negative one is reported as its kind. *)
C3_StatusTranslation ==
    /\ (last.op \in Status32Ops /\ last.called) =>
            IF last.ret >= 0
            THEN last.res.tag = "Ok"
            ELSE last.res = Err(KindOf32(last.ret))
    /\ last.op \in Status64Ops =>
            IF last.ret64[1] >= 0
            THEN last.res.tag = "Ok"
            ELSE last.res = Err(KindOf64(last.ret64))
    /\ (last.op \in OpenOps /\ last.called /\ last.ret < 0) =>
            last.res = Err(KindOf32(last.ret))

\* A 64-bit return of -2^32-1, whose low half is OP_FALSE, reported as Unknown.
C3_Witness ==
    /\ last.op = "raw_total"
    /\ last.ret64 = <<-2, OP_FALSE>>
    /\ last.res = Err("Unknown")

(* C4: an opening operation returns a handle if and only if the native call *)
(* returned a non-null reference and a non-negative status; otherwise it    *)
(* returns the kind mapped from the status, Unknown when the reference is   *)
(* null and the status non-negative; the returned handle holds exactly the  *)
(* reference the native call returned.                                      *)
C4_OpenOutcome ==
    (last.op \in OpenOps /\ last.called) =>
        /\ last.res.tag \in {"Ok", "Err"}
        /\ last.res.tag = "Ok" <=> (last.nonnull /\ last.ret >= 0)
        /\ last.res.tag = "Err" =>
                last.res.err = (IF last.ret < 0 THEN KindOf32(last.ret) ELSE "Unknown")
        /\ last.res.tag = "Ok" =>
                /\ last.ref # Null
                /\ last.h \in live
                /\ ptr[last.h] = last.ref

\* A null reference with status 0 reported as Unknown, no handle made.
C4_Witness ==
    /\ last.op = "open_memory"
    /\ ~last.nonnull
    /\ last.ret = 0
    /\ last.res = Err("Unknown")
    /\ last.h = 0

(* C5: test_open consumes its handle.  On a non-negative native status it   *)
(* returns a handle holding the same reference and causes no release of it; *)
(* on a negative status it returns the mapped kind and the reference is     *)
(* released exactly once; the consumed handle is not live afterwards unless *)
(* it is the one returned.                                                  *)
C5_PromoteReleasesExactlyOnce ==
    last.op = "test_open" =>
        IF last.ret >= 0
        THEN /\ last.res.tag = "Ok"
             /\ last.h \in live
             /\ ptr[last.h] = last.ref
             /\ Freed(last.ref) <=> last.freed
        ELSE /\ last.res = Err(KindOf32(last.ret))
             /\ last.h \notin live
             /\ freeCount[last.ref] = 1

(* C6: a decode operation returns either a success carrying the frame count *)
(* the native call returned or an error kind, never both; a native return   *)
(* of zero is a success with count 0, only a negative one is an error.      *)
C6_ReadOutcome ==
    (last.op \in ReadOps /\ last.called) =>
        IF last.ret >= 0
        THEN last.res = [tag |-> "Ok", val |-> <<0, last.ret>>, err |-> NoKind]
        ELSE /\ last.res.tag = "Err"
             /\ last.res.err # NoKind
             /\ last.res.val = NoVal

\* End of stream: the native read returned 0 and the operation returned Ok(0).
C6_Witness ==
    /\ last.op = "read_float_stereo"
    /\ last.called
    /\ last.ret = 0
    /\ last.res = Ok(<<0, 0>>)

(* C7: a decode operation whose buffer is longer than i32::MAX fails fast   *)
(* (panics) without calling the native read; otherwise the native read      *)
(* receives exactly the buffer's length as its capacity.                    *)
C7_BufferLength ==
    last.op \in ReadOps =>
        IF last.len[1] # 0 \/ last.len[2] < 0
        THEN last.res.tag = "Panic" /\ ~last.called
        ELSE last.called /\ last.cap = last.len[2] /\ last.res.tag # "Panic"

\* A buffer of 2^32+5 elements: panic, no native call (not a call with 5).
C7_Witness ==
    /\ last.op = "read"
    /\ last.len = <<1, 5>>
    /\ last.res.tag = "Panic"
    /\ ~last.called

(* C8: for every per-link query and every link index, a rejection by the    *)
(* native library (a negative return of raw_total, pcm_total, bitrate; a    *)
(* null return of head, tags) is returned as a typed error, and no per-link *)
(* query crashes.  serial_number_of_link and channel_count have no native   *)
(* rejection: op_serialno and op_channel_count return a value for any       *)
(* index.                                                                   *)
C8_RejectionIsTypedError ==
    last.op \in PerLinkOps =>
        /\ last.res.tag # "Panic"
        /\ (last.op \in {"raw_total", "pcm_total"} /\ Neg64(last.ret64)) =>
                last.res.tag = "Err" /\ last.res.err # NoKind
        /\ (last.op = "bitrate" /\ last.ret < 0) =>
                last.res.tag = "Err" /\ last.res.err # NoKind
        /\ (last.op \in {"head", "tags"} /\ ~last.nonnull) =>
                last.res.tag = "Err" /\ last.res.err # NoKind

\* pcm_total of link -1 rejected with OP_EINVAL: Err(InvalidParameters).
C8_Witness ==
    /\ last.op = "pcm_total"
    /\ last.li = -1
    /\ last.ret64 = I64FromI32(OP_EINVAL)
    /\ last.res = Err("InvalidParameters")

(* C9: every OpusHead / OpusTags the caller holds refers to a decoder       *)
(* handle that is still live and whose reference has not been released.     *)
C9_MetadataWithinOwnerLifetime ==
    \A view \in metas : view.of \in live /\ ~Freed(view.ref)

(* C10: when an opening operation fails, no native reference is left        *)
(* unreleased: a non-null reference returned together with a negative       *)
(* status has op_free called on it exactly once by the time the error is    *)
(* returned.                                                                *)
C10_FailedOpenReleasesReference ==
    \A r \in issued \ given : freeCount[r] = 1

====
